---- MODULE Spec2Model ----
(***************************************************************************)
(* Model of endpoint_tester (src/endpoint_tester/src/lib.rs): the run()     *)
(* driver, its worker loop over the shared atomics sent / completed / stop, *)
(* and the Aggregates accumulator guarded by the tokio Mutex.               *)
(*                                                                          *)
(* Every atomic operation of a worker is one step.  The atomics are used    *)
(* with Ordering::Relaxed loads: a load of `stop` may still return false    *)
(* after another worker stored true, and a load of `sent` may return any    *)
(* value between the last one this worker observed and the current one.     *)
(* Read-modify-write operations (compare_exchange, fetch_add) act on the    *)
(* current value.                                                           *)
(***************************************************************************)
EXTENDS Integers, Sequences, FiniteSets, TLC

(* ------------------------------ bounds --------------------------------- *)

\* largest --concurrency value tried (0 is tried too, and clamps to 1)
MaxConc == 2
\* largest --requests target tried
MaxRequests == 2
\* a run without --requests reaches its deadline before more than this many
\* slots are granted
MaxSent == 2

(* ------------------------------ Option --------------------------------- *)

None == [some |-> FALSE]
Some(x) == [some |-> TRUE, v |-> x]

Max(a, b) == IF a >= b THEN a ELSE b

(* --------------------------- parse_duration ---------------------------- *)
\* Strings handed to a parser are sequences of one-character strings.

Digits == <<"0", "1", "2", "3", "4", "5", "6", "7", "8", "9">>

IsDigit(c) == \E i \in 1..10 : Digits[i] = c

DigitVal(c) == (CHOOSE i \in 1..10 : Digits[i] = c) - 1

ToLower(c) ==
    CASE c = "M" -> "m"
      [] c = "S" -> "s"
      [] c = "H" -> "h"
      [] OTHER -> c

RECURSIVE TrimStart(_)
TrimStart(s) ==
    IF s # <<>> /\ Head(s) = " " THEN TrimStart(Tail(s)) ELSE s

RECURSIVE TrimEnd(_)
TrimEnd(s) ==
    IF s # <<>> /\ s[Len(s)] = " " THEN TrimEnd(SubSeq(s, 1, Len(s) - 1)) ELSE s

Trim(s) == TrimEnd(TrimStart(s))

EndsWith(s, suf) ==
    /\ Len(s) >= Len(suf)
    /\ SubSeq(s, Len(s) - Len(suf) + 1, Len(s)) = suf

\* str::parse::<u64>: an optional leading '+', then one or more digits (the
\* strings tried are a few digits long, far below 64 bits)
RECURSIVE ParseDigits(_, _)
ParseDigits(s, acc) ==
    IF s = <<>> THEN Some(acc)
    ELSE IF ~IsDigit(Head(s)) THEN None
    ELSE ParseDigits(Tail(s), acc * 10 + DigitVal(Head(s)))

ParseU64(s) ==
    LET d == IF s # <<>> /\ Head(s) = "+" THEN Tail(s) ELSE s
    IN  IF d = <<>> THEN None ELSE ParseDigits(d, 0)

\* the Duration is kept in milliseconds
parse_duration(str) ==
    LET s == Trim([i \in 1..Len(str) |-> ToLower(str[i])])
        unit == IF EndsWith(s, <<"m", "s">>) THEN "ms"
                ELSE IF EndsWith(s, <<"s">>) THEN "s"
                ELSE IF EndsWith(s, <<"m">>) THEN "m"
                ELSE IF EndsWith(s, <<"h">>) THEN "h"
                ELSE "none"
        num == IF unit = "ms" THEN SubSeq(s, 1, Len(s) - 2)
               ELSE SubSeq(s, 1, Len(s) - 1)
        n == ParseU64(Trim(num))
    IN  IF s = <<>> THEN None
        ELSE IF unit = "none" THEN None
        ELSE IF ~n.some THEN None
        ELSE CASE unit = "ms" -> Some(n.v)
               [] unit = "s" -> Some(n.v * 1000)
               [] unit = "m" -> Some(n.v * 60 * 1000)
               [] unit = "h" -> Some(n.v * 60 * 60 * 1000)

(* ------------------------- parse_http_method --------------------------- *)

LowerCase ==
    <<"a", "b", "c", "d", "e", "f", "g", "h", "i", "j", "k", "l", "m", "n",
      "o", "p", "q", "r", "s", "t", "u", "v", "w", "x", "y", "z">>

UpperCase ==
    <<"A", "B", "C", "D", "E", "F", "G", "H", "I", "J", "K", "L", "M", "N",
      "O", "P", "Q", "R", "S", "T", "U", "V", "W", "X", "Y", "Z">>

\* u8::to_ascii_uppercase
ToAsciiUpper(c) ==
    IF \E i \in 1..26 : LowerCase[i] = c
    THEN UpperCase[CHOOSE i \in 1..26 : LowerCase[i] = c]
    ELSE c

Methods ==
    {<<"G", "E", "T">>, <<"P", "O", "S", "T">>, <<"P", "U", "T">>,
     <<"D", "E", "L", "E", "T", "E">>, <<"P", "A", "T", "C", "H">>,
     <<"H", "E", "A", "D">>, <<"O", "P", "T", "I", "O", "N", "S">>,
     <<"T", "R", "A", "C", "E">>, <<"C", "O", "N", "N", "E", "C", "T">>}

parse_http_method(str) ==
    LET t == Trim(str)
        u == [i \in 1..Len(t) |-> ToAsciiUpper(t[i])]
    IN  IF u \in Methods THEN Some(u) ELSE None

(* ----------------------------- parse_header ---------------------------- *)

\* s.splitn(2, ':'): the parts before and after the first ':', or the whole
\* string when there is none
Splitn2(s) ==
    IF \E i \in 1..Len(s) : s[i] = ":"
    THEN LET i == CHOOSE j \in 1..Len(s) :
                      s[j] = ":" /\ \A k \in 1..(j - 1) : s[k] # ":"
         IN  <<SubSeq(s, 1, i - 1), SubSeq(s, i + 1, Len(s))>>
    ELSE <<s>>

parse_header(str) ==
    LET parts == Splitn2(str)
    IN  IF Len(parts) # 2 THEN None
        ELSE IF Trim(parts[1]) = <<>> THEN None
        ELSE Some(<<Trim(parts[1]), Trim(parts[2])>>)

(* -------------------- Url::parse, serde_json, the files ---------------- *)

\* Url::parse (the url crate), on the urls tried
Url_parse(u) == IF u = "not a url" THEN None ELSE Some(u)

\* serde_json::from_str / from_slice, on the texts tried
serde_json_from_str(text) == IF text = "{\"a\":1}" THEN Some(text) ELSE None

\* std::fs::read, on the paths tried
fs_read(path) ==
    CASE path = "payload.json" -> Some("{\"a\":1}")
      [] path = "broken.json" -> Some("{\"a\":")
      [] OTHER -> None

\* Ok(Some(value)), Ok(None), or Err
load_json_payload(a) ==
    IF a.json.some /\ a.json_file.some THEN [ok |-> FALSE, value |-> None]
    ELSE IF a.json.some
    THEN LET v == serde_json_from_str(a.json.v)
         IN  [ok |-> v.some, value |-> v]
    ELSE IF a.json_file.some
    THEN LET bytes == fs_read(a.json_file.v)
             v == IF bytes.some THEN serde_json_from_str(bytes.v) ELSE None
         IN  [ok |-> v.some, value |-> v]
    ELSE [ok |-> TRUE, value |-> None]

(* ----------------------------- Aggregates ------------------------------ *)

StatusCodes == {200, 500}

\* a reqwest::Error, as the set of its is_*() predicates that are true
ErrorShapes == {{"timeout", "connect"}, {"body"}}

Ok(code) == [ok |-> TRUE, code |-> code, err |-> {}]
Err(e) == [ok |-> FALSE, code |-> 0, err |-> e]

\* no exchange result is held
NoResponse == [ok |-> FALSE, code |-> 0, err |-> {"none"}]

Responses == {Ok(c) : c \in StatusCodes} \cup {Err(e) : e \in ErrorShapes}

\* elapsed microseconds of an exchange
Micros == {0, 1}

StatusClassCounts_default ==
    [c1xx |-> 0, c2xx |-> 0, c3xx |-> 0, c4xx |-> 0, c5xx |-> 0, other |-> 0]

\* the same rollup with every code from 500 up counting into c5xx
StatusClassCounts_record_clamped(self, code) ==
    CASE code \div 100 = 1 -> [self EXCEPT !.c1xx = @ + 1]
      [] code \div 100 = 2 -> [self EXCEPT !.c2xx = @ + 1]
      [] code \div 100 = 3 -> [self EXCEPT !.c3xx = @ + 1]
      [] code \div 100 = 4 -> [self EXCEPT !.c4xx = @ + 1]
      [] code \div 100 >= 5 -> [self EXCEPT !.c5xx = @ + 1]
      [] OTHER -> [self EXCEPT !.other = @ + 1]

\* the same rollup with the 5xx arm counting into c4xx
StatusClassCounts_record_shifted(self, code) ==
    CASE code \div 100 = 1 -> [self EXCEPT !.c1xx = @ + 1]
      [] code \div 100 = 2 -> [self EXCEPT !.c2xx = @ + 1]
      [] code \div 100 = 3 -> [self EXCEPT !.c3xx = @ + 1]
      [] code \div 100 = 4 -> [self EXCEPT !.c4xx = @ + 1]
      [] code \div 100 = 5 -> [self EXCEPT !.c4xx = @ + 1]
      [] OTHER -> [self EXCEPT !.other = @ + 1]

StatusClassCounts_record(self, code) ==
    CASE code \div 100 = 1 -> [self EXCEPT !.c1xx = @ + 1]
      [] code \div 100 = 2 -> [self EXCEPT !.c2xx = @ + 1]
      [] code \div 100 = 3 -> [self EXCEPT !.c3xx = @ + 1]
      [] code \div 100 = 4 -> [self EXCEPT !.c4xx = @ + 1]
      [] code \div 100 = 5 -> [self EXCEPT !.c5xx = @ + 1]
      [] OTHER -> [self EXCEPT !.other = @ + 1]

NetErrCounts_default ==
    [timeout |-> 0, connect |-> 0, request |-> 0, body |-> 0, decode |-> 0,
     other |-> 0]

\* the same match with the Body arm counting nothing
NetErrCounts_record_no_body(self, k) ==
    CASE k = "Timeout" -> [self EXCEPT !.timeout = @ + 1]
      [] k = "Connect" -> [self EXCEPT !.connect = @ + 1]
      [] k = "Request" -> [self EXCEPT !.request = @ + 1]
      [] k = "Body" -> self
      [] k = "Decode" -> [self EXCEPT !.decode = @ + 1]
      [] k = "Other" -> [self EXCEPT !.other = @ + 1]

NetErrCounts_record(self, k) ==
    CASE k = "Timeout" -> [self EXCEPT !.timeout = @ + 1]
      [] k = "Connect" -> [self EXCEPT !.connect = @ + 1]
      [] k = "Request" -> [self EXCEPT !.request = @ + 1]
      [] k = "Body" -> [self EXCEPT !.body = @ + 1]
      [] k = "Decode" -> [self EXCEPT !.decode = @ + 1]
      [] k = "Other" -> [self EXCEPT !.other = @ + 1]

NetErrCounts_total(self) ==
    self.timeout + self.connect + self.request + self.body + self.decode
        + self.other

\* *map.entry(key).or_insert(0) += 1 on a BTreeMap<_, u64>
EntryIncrement(map, key) ==
    [k \in DOMAIN map \cup {key} |->
        IF k = key THEN (IF key \in DOMAIN map THEN map[key] ELSE 0) + 1
        ELSE map[k]]

\* status_exact is the BTreeMap code -> count; latency_micros is the
\* histogram as the map recorded value -> count
Aggregates_new ==
    [status_exact |-> [c \in {} |-> 0],
     status_class |-> StatusClassCounts_default,
     net_errors |-> NetErrCounts_default,
     latency_micros |-> [v \in {} |-> 0]]

\* record_status without the status_class.record(code) call
record_status_exact_only(self, code) ==
    [self EXCEPT !.status_exact = EntryIncrement(@, code)]

record_status(self, code) ==
    [self EXCEPT !.status_exact = EntryIncrement(@, code),
                 !.status_class = StatusClassCounts_record(@, code)]

record_error(self, kind) ==
    [self EXCEPT !.net_errors = NetErrCounts_record(@, kind)]

\* record_latency that drops a zero sample instead of clamping it to 1
record_latency_skip_zero(self, micros) ==
    IF micros = 0 THEN self
    ELSE [self EXCEPT !.latency_micros = EntryIncrement(@, micros)]

record_latency(self, micros) ==
    [self EXCEPT !.latency_micros = EntryIncrement(@, Max(micros, 1))]

\* the same chain asking is_connect() first
classify_reqwest_error_connect_first(e) ==
    IF "connect" \in e THEN "Connect"
    ELSE IF "timeout" \in e THEN "Timeout"
    ELSE IF "request" \in e THEN "Request"
    ELSE IF "body" \in e THEN "Body"
    ELSE IF "decode" \in e THEN "Decode"
    ELSE "Other"

classify_reqwest_error(e) ==
    IF "timeout" \in e THEN "Timeout"
    ELSE IF "connect" \in e THEN "Connect"
    ELSE IF "request" \in e THEN "Request"
    ELSE IF "body" \in e THEN "Body"
    ELSE IF "decode" \in e THEN "Decode"
    ELSE "Other"

\* sum of the counts of a map key -> count
RECURSIVE MapSum(_)
MapSum(map) ==
    IF DOMAIN map = {} THEN 0
    ELSE LET k == CHOOSE x \in DOMAIN map : TRUE
         IN  map[k] + MapSum([x \in DOMAIN map \ {k} |-> map[x]])

\* Histogram::len
HistogramLen(h) == MapSum(h)

StatusClassSum(sc) == sc.c1xx + sc.c2xx + sc.c3xx + sc.c4xx + sc.c5xx + sc.other

\* a history count: one more occurrence of x
Counted(h, x) ==
    [k \in DOMAIN h \cup {x} |->
        IF k = x THEN (IF x \in DOMAIN h THEN h[x] ELSE 0) + 1 ELSE h[k]]

(* ------------------------------- RunArgs ------------------------------- *)

DurationInputs == {<<"0", "s">>, <<"1", "m", "s">>, <<"1", "0">>}

TimeoutInputs == {<<"2", "s">>, <<"x", "s">>}

ProgressInputs == {0, 2}

UrlInputs == {"http://127.0.0.1/ok", "not a url"}

MethodInputs == {<<"G", "E", "T">>, <<" ", "p", "o", "s", "t">>, <<"N", "O", "P", "E">>}

\* each a Vec of header strings
HeaderInputs ==
    {<<>>,
     << <<"X", ":", " ", "y">> >>,
     << <<"X", ":", " ", "y">>, <<"b", "a", "d">> >>,
     << <<":", " ", "v">> >>}

JsonInputs == {None, Some("{\"a\":1}"), Some("{\"a\":")}

JsonFileInputs ==
    {None, Some("payload.json"), Some("broken.json"), Some("missing.json")}

\* The arguments tried: every combination of concurrency, requests, duration,
\* timeout and progress_every with one url, method and no headers or payload,
\* and every combination of url, method, headers, json and json_file with one
\* worker and one request.
RunArgs ==
    [concurrency : 0..MaxConc,
     requests : {None} \cup {Some(n) : n \in 0..MaxRequests},
     duration : {None} \cup {Some(d) : d \in DurationInputs},
     timeout : TimeoutInputs,
     progress_every : ProgressInputs,
     url : {"http://127.0.0.1/ok"},
     method : {<<"G", "E", "T">>},
     headers : {<<>>},
     json : {None},
     json_file : {None}]
    \cup
    [concurrency : {1},
     requests : {Some(1)},
     duration : {None},
     timeout : {<<"2", "s">>},
     progress_every : {0},
     url : UrlInputs,
     method : MethodInputs,
     headers : HeaderInputs,
     json : JsonInputs,
     json_file : JsonFileInputs]

(* -------------------------------- state -------------------------------- *)

VARIABLES
    args,        \* the RunArgs run() was called with
    phase,       \* where run() itself is: start, running, joined, snapshot, done, error
    now,         \* the clock, in milliseconds since `start`
    deadline,    \* Option<Instant>: start + duration
    sent,        \* AtomicU64: slots granted (RunResult.sent)
    completed,   \* AtomicU64: outcomes folded
    stop,        \* AtomicBool
    agg,         \* the Aggregates behind the Mutex
    aggLock,     \* holder of the Mutex: a worker, or 0 when it is free
    pc,          \* per worker: its position in the loop
    cur,         \* per worker: the value of `sent` it last observed
    resp,        \* per worker: the result of req.send().await
    exchanged,   \* history: how many exchanges returned each response
    notified,    \* history: the progress lines printed, in order
    deadlineSeen,\* history: some worker found Instant::now() >= dl
    aggregates,  \* run()'s clone of the Aggregates, once taken
    result       \* what run() returned

vars ==
    <<args, phase, now, deadline, sent, completed, stop, agg, aggLock, pc, cur,
      resp, exchanged, notified, deadlineSeen, aggregates, result>>

shared == <<sent, completed, stop, agg, aggLock>>
locals == <<cur, resp>>
history == <<exchanged, notified, deadlineSeen>>
driver == <<args, phase, deadline, aggregates, result>>

conc == Max(args.concurrency, 1)

limit == args.requests

Workers == DOMAIN pc

NoResult == [kind |-> "none"]
ErrResult == [kind |-> "err"]
RunResult(s, c, a) ==
    [kind |-> "ok", sent |-> s, completed |-> c, aggregates |-> a]

Init ==
    /\ args \in RunArgs
    /\ phase = "start"
    /\ now = 0
    /\ deadline = None
    /\ sent = 0
    /\ completed = 0
    /\ stop = FALSE
    /\ agg = Aggregates_new
    /\ aggLock = 0
    /\ pc = <<>>
    /\ cur = <<>>
    /\ resp = <<>>
    /\ exchanged = [r \in {} |-> 0]
    /\ notified = <<>>
    /\ deadlineSeen = FALSE
    /\ aggregates = None
    /\ result = NoResult

(* --------------------------- run(): the driver ------------------------- *)

\* the checks of run() without the one for a missing stopping condition
ArgsAccepted_no_stop_condition(a) ==
    /\ Url_parse(a.url).some
    /\ parse_http_method(a.method).some
    /\ parse_duration(a.timeout).some
    /\ a.duration.some => parse_duration(a.duration.v).some
    /\ \A i \in 1..Len(a.headers) : parse_header(a.headers[i]).some
    /\ load_json_payload(a).ok

\* the checks of run() before the shared state is built
ArgsAccepted(a) ==
    /\ Url_parse(a.url).some
    /\ parse_http_method(a.method).some
    /\ ~(~a.requests.some /\ ~a.duration.some)
    /\ parse_duration(a.timeout).some
    /\ a.duration.some => parse_duration(a.duration.v).some
    /\ \A i \in 1..Len(a.headers) : parse_header(a.headers[i]).some
    /\ load_json_payload(a).ok

RunRejected ==
    /\ phase = "start"
    /\ ~ArgsAccepted(args)
    /\ phase' = "error"
    /\ result' = ErrResult
    /\ UNCHANGED <<args, now, deadline, aggregates>>
    /\ UNCHANGED <<shared, pc, locals, history>>

\* shared state, start, deadline, and the spawn of the conc workers
RunSpawn ==
    /\ phase = "start"
    /\ ArgsAccepted(args)
    /\ phase' = "running"
    /\ deadline' = IF args.duration.some
                   THEN Some(now + parse_duration(args.duration.v).v)
                   ELSE None
    /\ pc' = [w \in 1..conc |-> "top"]
    /\ cur' = [w \in 1..conc |-> 0]
    /\ resp' = [w \in 1..conc |-> NoResponse]
    /\ UNCHANGED <<args, now, aggregates, result>>
    /\ UNCHANGED <<shared, history>>

\* the clock advances while the workers run; it is followed up to the deadline
Tick ==
    /\ phase = "running"
    /\ deadline.some
    /\ now < deadline.v
    /\ now' = now + 1
    /\ UNCHANGED <<driver, shared, pc, locals, history>>

(* ---------------------------- the worker loop -------------------------- *)

Goto(w, label) == pc' = [pc EXCEPT ![w] = label]

\* the values stop.load(Relaxed) may return
StopLoad == {stop, FALSE}

\* the deadline check with > in place of >=
DeadlineReached_strict == deadline.some /\ now > deadline.v

\* Instant::now() >= dl
DeadlineReached == deadline.some /\ now >= deadline.v

\* the limit check with > in place of >=
LimitReached_strict(c, n) == c > n

\* the limit check firing one slot early
LimitReached_early(c, n) == c + 1 >= n

\* cur >= n
LimitReached(c, n) == c >= n

\* a fetch_add(1) in place of the compare_exchange: always succeeds
compare_exchange_as_fetch_add(current, expected, new) ==
    [ok |-> TRUE, value |-> current + 1]

\* AtomicU64::compare_exchange(expected, new) on an atomic holding `current`:
\* whether it succeeded, and the value the atomic holds afterwards
compare_exchange(current, expected, new) ==
    IF current = expected
    THEN [ok |-> TRUE, value |-> new]
    ELSE [ok |-> FALSE, value |-> current]

\* the progress test without the remainder
ProgressDue_every_time(done, every) == every > 0

\* progress_every > 0 && done % progress_every == 0
ProgressDue(done, every) == every > 0 /\ done % every = 0

\* workers past the deadline check that have not yet taken their slot
Reserving == Cardinality({w \in Workers : pc[w] = "reserve"})

CheckStop(w) ==
    /\ pc[w] = "top"
    /\ \E s \in StopLoad : Goto(w, IF s THEN "exited" ELSE "deadline")
    /\ UNCHANGED <<driver, now, shared, locals, history>>

CheckDeadline(w) ==
    /\ pc[w] = "deadline"
    /\ IF DeadlineReached
       THEN /\ stop' = TRUE
            /\ deadlineSeen' = TRUE
            /\ Goto(w, "exited")
       ELSE /\ ~limit.some => sent + Reserving < MaxSent
            /\ Goto(w, "reserve")
            /\ UNCHANGED <<stop, deadlineSeen>>
    /\ UNCHANGED <<driver, now, sent, completed, agg, aggLock, locals, exchanged,
                   notified>>

\* LoadSent storing the outcome of the comparison, stop.store(cur >= n), on
\* both branches
LoadSent_store_comparison(w) ==
    /\ pc[w] = "reserve"
    /\ limit.some
    /\ \E c \in cur[w]..sent :
          /\ cur' = [cur EXCEPT ![w] = c]
          /\ stop' = LimitReached(c, limit.v)
          /\ IF LimitReached(c, limit.v)
             THEN Goto(w, "exited")
             ELSE Goto(w, "cas")
    /\ UNCHANGED <<driver, now, sent, completed, agg, aggLock, resp, history>>

\* limit is Some(n): sent.load, and the check against n
LoadSent(w) ==
    /\ pc[w] = "reserve"
    /\ limit.some
    /\ \E c \in cur[w]..sent :
          /\ cur' = [cur EXCEPT ![w] = c]
          /\ IF LimitReached(c, limit.v)
             THEN /\ stop' = TRUE
                  /\ Goto(w, "exited")
             ELSE /\ Goto(w, "cas")
                  /\ UNCHANGED stop
    /\ UNCHANGED <<driver, now, sent, completed, agg, aggLock, resp, history>>

\* CompareExchange retrying the same compare_exchange after a failure,
\* without reading `sent` again
CompareExchange_retry_stale(w) ==
    /\ pc[w] = "cas"
    /\ LET r == compare_exchange(sent, cur[w], cur[w] + 1)
       IN  /\ sent' = r.value
           /\ IF r.ok
              THEN /\ cur' = [cur EXCEPT ![w] = cur[w] + 1]
                   /\ Goto(w, "send")
              ELSE /\ UNCHANGED cur
                   /\ Goto(w, "cas")
    /\ UNCHANGED <<driver, now, completed, stop, agg, aggLock, resp, history>>

\* CompareExchange giving up on contention: a failed compare_exchange stores
\* stop and leaves the loop
CompareExchange_stop_on_failure(w) ==
    /\ pc[w] = "cas"
    /\ LET r == compare_exchange(sent, cur[w], cur[w] + 1)
       IN  /\ sent' = r.value
           /\ IF r.ok
              THEN /\ cur' = [cur EXCEPT ![w] = cur[w] + 1]
                   /\ Goto(w, "send")
                   /\ UNCHANGED stop
              ELSE /\ UNCHANGED cur
                   /\ stop' = TRUE
                   /\ Goto(w, "exited")
    /\ UNCHANGED <<driver, now, completed, agg, aggLock, resp, history>>

\* CompareExchange without the `continue`: a failed compare_exchange falls
\* through to the request
CompareExchange_no_continue(w) ==
    /\ pc[w] = "cas"
    /\ LET r == compare_exchange(sent, cur[w], cur[w] + 1)
       IN  /\ sent' = r.value
           /\ IF r.ok
              THEN cur' = [cur EXCEPT ![w] = cur[w] + 1]
              ELSE \E seen \in (cur[w] + 1)..sent :
                      cur' = [cur EXCEPT ![w] = seen]
           /\ Goto(w, "send")
    /\ UNCHANGED <<driver, now, completed, stop, agg, aggLock, resp, history>>

\* limit is Some(n): the compare_exchange that reserves one slot
CompareExchange(w) ==
    /\ pc[w] = "cas"
    /\ LET r == compare_exchange(sent, cur[w], cur[w] + 1)
       IN  /\ sent' = r.value
           /\ IF r.ok
              THEN /\ cur' = [cur EXCEPT ![w] = cur[w] + 1]
                   /\ Goto(w, "send")
              ELSE /\ \E seen \in (cur[w] + 1)..sent :
                        cur' = [cur EXCEPT ![w] = seen]
                   /\ Goto(w, "top")
    /\ UNCHANGED <<driver, now, completed, stop, agg, aggLock, resp, history>>

\* the limit-is-None branch taking two slots for its one request
FetchAdd_two_slots(w) ==
    /\ pc[w] = "reserve"
    /\ ~limit.some
    /\ sent' = sent + 2
    /\ Goto(w, "send")
    /\ UNCHANGED <<driver, now, completed, stop, agg, aggLock, locals, history>>

\* the limit-is-None branch without its sent.fetch_add(1)
FetchAdd_missing(w) ==
    /\ pc[w] = "reserve"
    /\ ~limit.some
    /\ Goto(w, "send")
    /\ UNCHANGED <<driver, now, shared, locals, history>>

\* limit is None: sent.fetch_add(1)
FetchAdd(w) ==
    /\ pc[w] = "reserve"
    /\ ~limit.some
    /\ sent' = sent + 1
    /\ Goto(w, "send")
    /\ UNCHANGED <<driver, now, completed, stop, agg, aggLock, locals, history>>

\* Send trying a failed exchange again
Send_retry_on_error(w) ==
    /\ pc[w] = "send"
    /\ \E r \in Responses :
          /\ resp' = [resp EXCEPT ![w] = IF r.ok THEN r ELSE NoResponse]
          /\ exchanged' = Counted(exchanged, r)
          /\ Goto(w, IF r.ok THEN "lock" ELSE "send")
    /\ UNCHANGED <<driver, now, shared, cur, notified, deadlineSeen>>

\* Send giving up the exchange once the deadline has been reached
Send_abort_at_deadline(w) ==
    /\ pc[w] = "send"
    /\ IF DeadlineReached
       THEN /\ Goto(w, "exited")
            /\ UNCHANGED <<resp, exchanged>>
       ELSE /\ \E r \in Responses :
                  /\ resp' = [resp EXCEPT ![w] = r]
                  /\ exchanged' = Counted(exchanged, r)
            /\ Goto(w, "lock")
    /\ UNCHANGED <<driver, now, shared, cur, notified, deadlineSeen>>

\* Send with a failed exchange going straight back to the loop top
Send_continue_on_error(w) ==
    /\ pc[w] = "send"
    /\ \E r \in Responses :
          /\ resp' = [resp EXCEPT ![w] = IF r.ok THEN r ELSE NoResponse]
          /\ exchanged' = Counted(exchanged, r)
          /\ Goto(w, IF r.ok THEN "lock" ELSE "top")
    /\ UNCHANGED <<driver, now, shared, cur, notified, deadlineSeen>>

\* req.send().await returns
Send(w) ==
    /\ pc[w] = "send"
    /\ \E r \in Responses :
          /\ resp' = [resp EXCEPT ![w] = r]
          /\ exchanged' = Counted(exchanged, r)
    /\ Goto(w, "lock")
    /\ UNCHANGED <<driver, now, shared, cur, notified, deadlineSeen>>

\* Lock leaving out the fold: straight on to completed.fetch_add
Lock_skip_fold(w) ==
    /\ pc[w] = "lock"
    /\ Goto(w, "count")
    /\ UNCHANGED <<driver, now, shared, locals, history>>

\* Lock taking the guard without waiting for the holder to drop it
Lock_no_wait(w) ==
    /\ pc[w] = "lock"
    /\ aggLock' = w
    /\ Goto(w, "record_latency")
    /\ UNCHANGED <<driver, now, sent, completed, stop, agg, locals, history>>

\* agg.lock().await
Lock(w) ==
    /\ pc[w] = "lock"
    /\ aggLock = 0
    /\ aggLock' = w
    /\ Goto(w, "record_latency")
    /\ UNCHANGED <<driver, now, sent, completed, stop, agg, locals, history>>

\* RecordLatency dropping the guard once the sample is recorded
RecordLatency_release(w) ==
    /\ pc[w] = "record_latency"
    /\ \E micros \in Micros : agg' = record_latency(agg, micros)
    /\ aggLock' = 0
    /\ Goto(w, "record_outcome")
    /\ UNCHANGED <<driver, now, sent, completed, stop, locals, history>>

\* a.record_latency(micros): micros was measured when the exchange returned;
\* its value depends on nothing else, and is drawn here
RecordLatency(w) ==
    /\ pc[w] = "record_latency"
    /\ \E micros \in Micros : agg' = record_latency(agg, micros)
    /\ Goto(w, "record_outcome")
    /\ UNCHANGED <<driver, now, sent, completed, stop, aggLock, locals, history>>

\* match resp { Ok(r) => a.record_status(..), Err(e) => a.record_error(..) }:
\* resp is consumed
RecordOutcome(w) ==
    /\ pc[w] = "record_outcome"
    /\ agg' = IF resp[w].ok
              THEN record_status(agg, resp[w].code)
              ELSE record_error(agg, classify_reqwest_error(resp[w].err))
    /\ resp' = [resp EXCEPT ![w] = NoResponse]
    /\ Goto(w, "unlock")
    /\ UNCHANGED <<driver, now, sent, completed, stop, aggLock, cur, history>>

\* drop(a)
Unlock(w) ==
    /\ pc[w] = "unlock"
    /\ aggLock' = 0
    /\ Goto(w, "count")
    /\ UNCHANGED <<driver, now, sent, completed, stop, agg, locals, history>>

\* completed.fetch_add(1) + 1, and the progress line
Complete(w) ==
    /\ pc[w] = "count"
    /\ completed' = completed + 1
    /\ notified' = IF ProgressDue(completed + 1, args.progress_every)
                   THEN Append(notified, completed + 1)
                   ELSE notified
    /\ Goto(w, "top")
    /\ UNCHANGED <<driver, now, sent, stop, agg, aggLock, locals, exchanged,
                   deadlineSeen>>

(* ------------------------ run(): join and result ----------------------- *)

AllExited == \A w \in Workers : pc[w] = "exited"

\* Join returning as soon as one handle has finished
Join_first_finished ==
    /\ phase = "running"
    /\ \E w \in Workers : pc[w] = "exited"
    /\ phase' = "joined"
    /\ UNCHANGED <<args, now, deadline, aggregates, result>>
    /\ UNCHANGED <<shared, pc, locals, history>>

\* for h in handles { h.await }
Join ==
    /\ phase = "running"
    /\ AllExited
    /\ phase' = "joined"
    /\ UNCHANGED <<args, now, deadline, aggregates, result>>
    /\ UNCHANGED <<shared, pc, locals, history>>

\* agg.lock().await; guard.clone()
Snapshot ==
    /\ phase = "joined"
    /\ aggLock = 0
    /\ aggregates' = Some(agg)
    /\ phase' = "snapshot"
    /\ UNCHANGED <<args, now, deadline, result>>
    /\ UNCHANGED <<shared, pc, locals, history>>

\* Ok(RunResult { sent: sent.load(), completed: completed.load(), aggregates })
Return ==
    /\ phase = "snapshot"
    /\ result' = RunResult(sent, completed, aggregates.v)
    /\ phase' = "done"
    /\ UNCHANGED <<args, now, deadline, aggregates>>
    /\ UNCHANGED <<shared, pc, locals, history>>

Next ==
    \/ RunRejected
    \/ RunSpawn
    \/ Tick
    \/ \E w \in Workers : CheckStop(w)
    \/ \E w \in Workers : CheckDeadline(w)
    \/ \E w \in Workers : LoadSent(w)
    \/ \E w \in Workers : CompareExchange(w)
    \/ \E w \in Workers : FetchAdd(w)
    \/ \E w \in Workers : Send(w)
    \/ \E w \in Workers : Lock(w)
    \/ \E w \in Workers : RecordLatency(w)
    \/ \E w \in Workers : RecordOutcome(w)
    \/ \E w \in Workers : Unlock(w)
    \/ \E w \in Workers : Complete(w)
    \/ Join
    \/ Snapshot
    \/ Return

Spec == Init /\ [][Next]_vars

\* the steps of worker task w
WorkerStep(w) ==
    /\ w \in Workers
    /\ \/ CheckStop(w)
       \/ CheckDeadline(w)
       \/ LoadSent(w)
       \/ CompareExchange(w)
       \/ FetchAdd(w)
       \/ Send(w)
       \/ Lock(w)
       \/ RecordLatency(w)
       \/ RecordOutcome(w)
       \/ Unlock(w)
       \/ Complete(w)

\* The runtime keeps polling every spawned task and the task of run() itself,
\* every exchange returns (a response, or an error at the latest when the
\* request timeout fires), and the clock reaches the deadline.
FairSpec ==
    /\ Spec
    /\ \A w \in 1..Max(MaxConc, 1) : WF_vars(WorkerStep(w))
    /\ WF_vars(Tick)
    /\ WF_vars(Join)
    /\ WF_vars(Snapshot)
    /\ WF_vars(Return)

(* -------------- one request with any outcome: the fold ----------------- *)

\* u16::MAX, the largest status code r.status().as_u16() can return
U16Max == 65535

\* the predicates of a reqwest::Error the classifier asks
ErrorPredicates == {"timeout", "connect", "request", "body", "decode"}

\* every result req.send().await can return: a response with any u16 status
\* code, or an error with any combination of the predicates
AnyResponses ==
    {Ok(c) : c \in 0..U16Max} \cup {Err(e) : e \in SUBSET ErrorPredicates}

FoldArgs ==
    [concurrency |-> 1, requests |-> Some(1), duration |-> None,
     timeout |-> <<"2", "s">>, progress_every |-> 0,
     url |-> "http://127.0.0.1/ok", method |-> <<"G", "E", "T">>,
     headers |-> <<>>, json |-> None, json_file |-> None]

\* one worker has reserved the only slot and is about to send
FoldInit ==
    /\ args = FoldArgs
    /\ phase = "running"
    /\ now = 0
    /\ deadline = None
    /\ sent = 1
    /\ completed = 0
    /\ stop = FALSE
    /\ agg = Aggregates_new
    /\ aggLock = 0
    /\ pc = <<"send">>
    /\ cur = <<1>>
    /\ resp = <<NoResponse>>
    /\ exchanged = [r \in {} |-> 0]
    /\ notified = <<>>
    /\ deadlineSeen = FALSE
    /\ aggregates = None
    /\ result = NoResult

\* req.send().await returns, with any result
SendAny(w) ==
    /\ pc[w] = "send"
    /\ \E r \in AnyResponses :
          /\ resp' = [resp EXCEPT ![w] = r]
          /\ exchanged' = Counted(exchanged, r)
    /\ Goto(w, "lock")
    /\ UNCHANGED <<driver, now, shared, cur, notified, deadlineSeen>>

FoldNext ==
    \/ \E w \in Workers : SendAny(w)
    \/ \E w \in Workers : Lock(w)
    \/ \E w \in Workers : RecordLatency(w)
    \/ \E w \in Workers : RecordOutcome(w)
    \/ \E w \in Workers : Unlock(w)
    \/ \E w \in Workers : Complete(w)

FoldSpec == FoldInit /\ [][FoldNext]_vars

(* ------------------------------ properties ---------------------------- *)

CountOnly == limit.some /\ ~args.duration.some

HistoryCount(ok) ==
    MapSum([r \in {x \in DOMAIN exchanged : x.ok = ok} |-> exchanged[r]])

\* exchanges that returned a response / that failed
OkExchanged == HistoryCount(TRUE)
ErrExchanged == HistoryCount(FALSE)

Count(map, k) == IF k \in DOMAIN map THEN map[k] ELSE 0

\* C1: in a run with a request-count target T and no deadline, for every
\* worker count (a concurrency of 0 runs one worker) and every T >= 0, the
\* returned RunResult has sent = T and completed = T.
C1_ExactCount ==
    (phase = "done" /\ CountOnly) =>
        /\ result.sent = limit.v
        /\ result.completed = limit.v

C1_Witness ==
    /\ phase = "done"
    /\ CountOnly
    /\ conc = MaxConc
    /\ limit.v = MaxRequests
    /\ result.sent = MaxRequests
    /\ result.completed = MaxRequests

\* C2: whenever a request-count target T is set, with or without a deadline,
\* sent <= T in every reachable state, however the workers race.
C2_IssuedWithinTarget == limit.some => sent <= limit.v

\* two workers read T-1; one has taken the last slot, the other is about to
\* try its compare_exchange
C2_Witness ==
    /\ limit.some
    /\ sent = limit.v
    /\ \E w1, w2 \in Workers :
          /\ w1 # w2
          /\ pc[w1] = "cas"
          /\ cur[w1] = limit.v - 1
          /\ pc[w2] = "send"

\* C3: completed <= sent in every reachable state of every run.
C3_CompletedWithinIssued == completed <= sent

C3_Witness ==
    /\ phase = "running"
    /\ completed > 0
    /\ completed < sent

\* C4: once every worker has left its loop, completed = sent, in every kind of
\* run, and the returned RunResult has sent = completed.
C4_AllFolded ==
    (phase \in {"running", "joined", "snapshot", "done"} /\ AllExited) =>
        /\ completed = sent
        /\ phase = "done" => result.sent = result.completed

C4_Witness ==
    /\ phase = "done"
    /\ ~limit.some
    /\ result.sent >= 2
    /\ result.completed = result.sent

\* C5: once stop is true, no step increments sent.
C5_NoReserveAfterStop == [][stop => sent' = sent]_vars

\* C6: in every step sent and completed do not decrease, and stop, once true,
\* stays true.
C6_Monotone ==
    [][/\ sent' >= sent
       /\ completed' >= completed
       /\ stop => stop']_vars

\* stop has been set while another worker is still in its loop with work done
C6_Witness ==
    /\ stop
    /\ completed > 0
    /\ \E w \in Workers : pc[w] \notin {"exited", "top"}

\* C7: in the returned aggregate, the six status-class counters sum to the sum
\* of the exact status-code counts, and both equal the number of exchanges
\* that returned a response.
C7_StatusSums ==
    phase = "done" =>
        LET a == result.aggregates
        IN  /\ StatusClassSum(a.status_class) = MapSum(a.status_exact)
            /\ MapSum(a.status_exact) = OkExchanged

C7_Witness ==
    /\ phase = "done"
    /\ OkExchanged >= 1
    /\ ErrExchanged >= 1
    /\ StatusClassSum(result.aggregates.status_class) = OkExchanged

\* C8: in the returned result, the network-error total equals the number of
\* failed exchanges, and successful plus failed exchanges equals completed.
C8_ErrorSums ==
    phase = "done" =>
        /\ NetErrCounts_total(result.aggregates.net_errors) = ErrExchanged
        /\ OkExchanged + ErrExchanged = result.completed

C8_Witness ==
    /\ phase = "done"
    /\ result.aggregates.net_errors.timeout = 1
    /\ result.aggregates.net_errors.body = 1
    /\ ErrExchanged = 2

\* C9: in the returned result, the latency histogram holds as many samples as
\* completed: one per completed request, failed or not.
C9_LatencyCount ==
    phase = "done" =>
        HistogramLen(result.aggregates.latency_micros) = result.completed

C9_Witness ==
    /\ phase = "done"
    /\ result.completed = 2
    /\ ErrExchanged = 1
    /\ HistogramLen(result.aggregates.latency_micros) = 2

ClassNames == {"c1xx", "c2xx", "c3xx", "c4xx", "c5xx", "other"}

KindNames == {"timeout", "connect", "request", "body", "decode", "other"}

\* the class counter a status code belongs to
ClassBucket(code) ==
    IF code \in 100..199 THEN "c1xx"
    ELSE IF code \in 200..299 THEN "c2xx"
    ELSE IF code \in 300..399 THEN "c3xx"
    ELSE IF code \in 400..499 THEN "c4xx"
    ELSE IF code \in 500..599 THEN "c5xx"
    ELSE "other"

\* the error counter of an error kind
KindCounter(kind) ==
    CASE kind = "Timeout" -> "timeout"
      [] kind = "Connect" -> "connect"
      [] kind = "Request" -> "request"
      [] kind = "Body" -> "body"
      [] kind = "Decode" -> "decode"
      [] kind = "Other" -> "other"

\* b is a with status code c recorded, and nothing else changed
OnlyStatusRecorded(a, b, c) ==
    /\ DOMAIN b.status_exact = DOMAIN a.status_exact \cup {c}
    /\ \A k \in DOMAIN b.status_exact :
          b.status_exact[k] = Count(a.status_exact, k) + (IF k = c THEN 1 ELSE 0)
    /\ \A n \in ClassNames :
          b.status_class[n] =
              a.status_class[n] + (IF n = ClassBucket(c) THEN 1 ELSE 0)
    /\ b.net_errors = a.net_errors
    /\ b.latency_micros = a.latency_micros

\* b is a with error kind `kind` recorded, and nothing else changed
OnlyErrorRecorded(a, b, kind) ==
    /\ \A n \in KindNames :
          b.net_errors[n] =
              a.net_errors[n] + (IF n = KindCounter(kind) THEN 1 ELSE 0)
    /\ b.status_exact = a.status_exact
    /\ b.status_class = a.status_class
    /\ b.latency_micros = a.latency_micros

\* a finished count-target run in which every exchange returned `code`
AllReturned(code) ==
    /\ phase = "done"
    /\ CountOnly
    /\ DOMAIN exchanged \subseteq {Ok(code)}

OnlyClassCounted(code) ==
    /\ \A n \in ClassNames :
          result.aggregates.status_class[n] =
              IF n = ClassBucket(code) THEN limit.v ELSE 0
    /\ \A n \in KindNames : result.aggregates.net_errors[n] = 0

\* C10: recording status code c adds 1 to the exact count of c and to the
\* class counter of c and changes no other counter; recording an error kind
\* adds 1 to that kind only.  Hence a count-target run with target T in which
\* every exchange returns 200 (or 500) ends with that class counter = T and
\* every other class counter and every error counter = 0.
C10_RecordFrame ==
    /\ [][\A w \in Workers :
            (pc[w] = "record_outcome" /\ pc'[w] # "record_outcome") =>
                IF resp[w].ok
                THEN OnlyStatusRecorded(agg, agg', resp[w].code)
                ELSE OnlyErrorRecorded(agg, agg',
                                       classify_reqwest_error(resp[w].err))]_vars
    /\ [](\A code \in {200, 500} : AllReturned(code) => OnlyClassCounted(code))

C10_Witness ==
    /\ phase = "done"
    /\ CountOnly
    /\ limit.v = MaxRequests
    /\ DOMAIN exchanged = {Ok(500)}
    /\ result.aggregates.status_class.c5xx = MaxRequests
    /\ result.aggregates.status_class.c2xx = 0

\* the inputs the configuration checks must refuse
BadUrls == {"not a url"}
BadMethods == {<<"N", "O", "P", "E">>}
BadDurations == {<<"1", "0">>, <<"x", "s">>}
BadHeaders == {<<"b", "a", "d">>, <<":", " ", "v">>}
BadJson == {"{\"a\":"}
BadJsonFiles == {"broken.json", "missing.json"}

ConfigRejected(a) ==
    \/ ~a.requests.some /\ ~a.duration.some
    \/ a.url \in BadUrls
    \/ a.method \in BadMethods
    \/ a.timeout \in BadDurations
    \/ a.duration.some /\ a.duration.v \in BadDurations
    \/ \E i \in 1..Len(a.headers) : a.headers[i] \in BadHeaders
    \/ a.json.some /\ a.json_file.some
    \/ a.json.some /\ a.json.v \in BadJson
    \/ a.json_file.some /\ a.json_file.v \in BadJsonFiles

\* C11: when the configuration is rejected (no stopping condition, or an
\* invalid url, method, timeout, duration, header or json / json-file pair),
\* run() ends in an error with no worker spawned, no counter advanced, no
\* request issued and no RunResult.
C11_RejectedBeforeSpawn ==
    ConfigRejected(args) =>
        /\ phase \in {"start", "error"}
        /\ phase = "error" => result = ErrResult
        /\ result.kind # "ok"
        /\ Workers = {}
        /\ sent = 0
        /\ completed = 0
        /\ ~stop
        /\ agg = Aggregates_new
        /\ DOMAIN exchanged = {}
        /\ aggregates = None

C11_Witness ==
    /\ phase = "error"
    /\ result = ErrResult
    /\ ~args.requests.some
    /\ ~args.duration.some
    /\ Workers = {}
    /\ sent = 0

\* the clock has reached start + duration
PastDeadline == deadline.some /\ now >= deadline.v

\* no worker is past its loop-top checks
AllAtLoopTop == \A w \in Workers : pc[w] \in {"top", "deadline", "exited"}

NothingIssued ==
    /\ sent = 0
    /\ completed = 0
    /\ agg = Aggregates_new
    /\ DOMAIN exchanged = {}
    /\ phase = "done" =>
          /\ result.sent = 0
          /\ result.completed = 0
          /\ result.aggregates = Aggregates_new

\* C12: when the deadline has already been reached as the workers start (a
\* zero duration, or the clock reaching it before any worker passed its
\* loop-top checks), every worker exits without issuing a request: the run
\* ends with sent = 0, completed = 0 and empty statistics, with or without a
\* request-count target.
C12_PastDeadlineIssuesNothing ==
    /\ []((phase # "start" /\ deadline.some /\ deadline.v = 0) => NothingIssued)
    /\ [][(PastDeadline /\ AllAtLoopTop) =>
            (AllAtLoopTop' /\ sent' = sent /\ completed' = completed
                /\ agg' = agg)]_vars

C12_Witness ==
    /\ phase = "done"
    /\ deadline.some
    /\ deadline.v = 0
    /\ limit.some
    /\ limit.v = MaxRequests
    /\ conc = MaxConc
    /\ result.sent = 0
    /\ result.completed = 0

\* C13: once the workers are running, under fair scheduling, with every
\* exchange returning and the clock reaching the deadline, every worker
\* leaves its loop and run() returns a RunResult, whatever the exchanges
\* return and however often a worker loses a compare_exchange.
C13_Terminates ==
    (phase = "running") ~>
        (phase = "done" /\ result.kind = "ok"
            /\ \A w \in Workers : pc[w] = "exited")

\* a finished run in which every exchange failed and a compare_exchange was lost
C13_Witness ==
    /\ phase = "done"
    /\ result.kind = "ok"
    /\ conc = MaxConc
    /\ limit.some
    /\ limit.v = MaxRequests
    /\ result.completed = MaxRequests
    /\ DOMAIN exchanged # {}
    /\ \A r \in DOMAIN exchanged : ~r.ok
    /\ \E w \in Workers : cur[w] < sent

\* C14: the snapshot of the statistics and the counters of the RunResult are
\* read after every worker has left its loop: from then on no worker changes
\* the shared state, so what run() returns is the final shared state.
C14_SnapshotAfterExit ==
    phase \in {"snapshot", "done"} =>
        /\ \A w \in Workers : pc[w] = "exited"
        /\ aggLock = 0
        /\ aggregates = Some(agg)
        /\ phase = "done" =>
              /\ result.aggregates = agg
              /\ result.sent = sent
              /\ result.completed = completed

C14_Witness ==
    /\ phase = "done"
    /\ conc = MaxConc
    /\ result.sent = MaxSent
    /\ result.completed = completed
    /\ result.aggregates = agg
    /\ HistogramLen(agg.latency_micros) = MaxSent

\* C15: in a run with both a request-count target T and a deadline, the run
\* ends with sent = completed and sent <= T, and with sent < T only if some
\* worker found the deadline reached.
TargetAndDeadline == limit.some /\ args.duration.some

C15_FirstConditionStops ==
    (TargetAndDeadline /\ phase = "done") =>
        /\ result.sent = result.completed
        /\ result.sent <= limit.v
        /\ result.sent < limit.v => deadlineSeen

\* the deadline cuts a run short of its target
C15_Witness ==
    /\ TargetAndDeadline
    /\ phase = "done"
    /\ result.sent = result.completed
    /\ 0 < result.sent
    /\ result.sent < limit.v
    /\ deadlineSeen

\* C16: the deadline is enforced only at the top of the loop. A worker past
\* the deadline check is never stopped before its request is folded and
\* counted: it goes on label by label and comes back to the loop top with
\* completed incremented. Once the deadline has been reached a worker at the
\* loop top reserves no further slot, it can only exit: so each worker
\* completes at most the one request it had already started.
InFlight == {"send", "lock", "record_latency", "record_outcome", "unlock", "count"}

AtLoopTop == {"top", "deadline"}

Successor ==
    [send |-> "lock", lock |-> "record_latency",
     record_latency |-> "record_outcome", record_outcome |-> "unlock",
     unlock |-> "count", count |-> "top"]

C16_DeadlineOnlyAtLoopTop ==
    [][/\ \A w \in Workers :
             /\ (pc[w] \in InFlight /\ pc'[w] # pc[w]) =>
                   /\ pc'[w] = Successor[pc[w]]
                   /\ pc[w] = "count" => completed' = completed + 1
             /\ (PastDeadline /\ pc[w] \in AtLoopTop) =>
                   /\ pc'[w] \in AtLoopTop \cup {"exited"}
                   /\ (pc[w] = "deadline" /\ pc'[w] # pc[w]) =>
                         pc'[w] = "exited"
       /\ (PastDeadline /\ \A w \in Workers : pc[w] \notin InFlight \cup {"reserve", "cas"}) =>
             /\ sent' = sent
             /\ completed' = completed
             /\ agg' = agg
      ]_vars

\* a worker found the deadline reached while another exchange is in flight
C16_Witness ==
    /\ deadlineSeen
    /\ \E w \in Workers : pc[w] = "send"
    /\ \E w \in Workers : pc[w] = "exited"

\* C17: access to the statistics is mutually exclusive: at most one worker is
\* between agg.lock().await and drop(a), that worker is the holder of the
\* lock, and every step that changes the statistics is taken by the holder.
InCriticalSection == {"record_latency", "record_outcome", "unlock"}

Holders == {w \in Workers : pc[w] \in InCriticalSection}

C17_MutualExclusion ==
    /\ [](/\ Cardinality(Holders) <= 1
          /\ \A w \in Workers : w \in Holders <=> aggLock = w)
    /\ [][agg' # agg =>
             \E w \in Holders :
                /\ aggLock = w
                /\ aggLock' = w
                /\ pc'[w] \in InCriticalSection
                /\ \A o \in Workers \ {w} : pc'[o] = pc[o]
         ]_vars

\* one worker folds its outcome while another waits for the lock
C17_Witness ==
    \E w, o \in Workers :
        /\ pc[w] = "record_outcome"
        /\ aggLock = w
        /\ pc[o] = "lock"
        /\ HistogramLen(agg.latency_micros) = 1

\* C18: a request's latency sample and its outcome are folded under one hold
\* of the lock: whenever the lock is free, the number of latency samples is the
\* sum of the exact status counts plus the total of the network errors, and
\* the class counters sum to the sum of the exact status counts.
C18_FoldedAtomically ==
    aggLock = 0 =>
        /\ HistogramLen(agg.latency_micros) =
              MapSum(agg.status_exact) + NetErrCounts_total(agg.net_errors)
        /\ StatusClassSum(agg.status_class) = MapSum(agg.status_exact)

\* the lock is free in the middle of a run, one request folded so far, and a
\* worker about to take the lock
C18_Witness ==
    /\ phase = "running"
    /\ aggLock = 0
    /\ MapSum(agg.status_exact) = 1
    /\ StatusClassSum(agg.status_class) = 1
    /\ HistogramLen(agg.latency_micros) = 1
    /\ \E w \in Workers : pc[w] = "lock"

\* C19: a worker whose compare_exchange on `sent` fails, because another
\* worker changed `sent` after this worker read it, issues no request for that
\* attempt and changes nothing: sent, completed, stop and the statistics are
\* as before, no exchange takes place, and the worker is back at the loop top.
CasFails(w) == pc[w] = "cas" /\ sent # cur[w]

C19_FailedCasChangesNothing ==
    [][\A w \in Workers :
          (CasFails(w) /\ pc'[w] # pc[w]) =>
              /\ pc'[w] = "top"
              /\ sent' = sent
              /\ completed' = completed
              /\ stop' = stop
              /\ agg' = agg
              /\ aggLock' = aggLock
              /\ exchanged' = exchanged
              /\ resp' = resp
      ]_vars

\* a worker is back at the loop top after losing the race for a slot: the
\* value it observed is one that only another worker's reservation produced
C19_Witness ==
    \E w, o \in Workers :
        /\ w # o
        /\ pc[w] = "top"
        /\ pc[o] = "send"
        /\ cur[w] = 1
        /\ cur[o] = 1
        /\ sent = 1
        /\ completed = 0
        /\ limit.some

\* C20: every reserved slot produces exactly one exchange and exactly one
\* fold, and no request is retried: the slots are the exchanges made plus the
\* requests being sent, and the completed requests plus those in flight; a
\* slot is taken by a worker that goes on to send, an exchange is made by a
\* worker that goes on to the fold, a failed exchange adds exactly 1 to the
\* error counter of its kind and nothing to a status counter, and completed
\* grows by 1 with the worker back at the loop top. In a run with a count
\* target T where every exchange times out, completed = T and the timeout
\* counter = T.
At(labels) == Cardinality({w \in Workers : pc[w] \in labels})

KindOf(r) == KindCounter(classify_reqwest_error(r.err))

AllTimedOut ==
    /\ DOMAIN exchanged # {}
    /\ \A r \in DOMAIN exchanged : ~r.ok /\ "timeout" \in r.err

C20_OneExchangeOneFold ==
    /\ [](/\ sent = MapSum(exchanged) + At({"send"})
          /\ sent = completed + At(InFlight)
          /\ HistogramLen(agg.latency_micros) =
                completed + At({"record_outcome", "unlock", "count"})
          /\ (CountOnly /\ phase = "done" /\ (AllTimedOut \/ limit.v = 0)) =>
                /\ result.completed = limit.v
                /\ result.aggregates.net_errors.timeout = limit.v)
    /\ [][/\ sent' # sent =>
                \E w \in Workers :
                   /\ pc[w] \in {"reserve", "cas"}
                   /\ pc'[w] = "send"
                   /\ sent' = sent + 1
          /\ exchanged' # exchanged =>
                \E w \in Workers :
                   /\ pc[w] = "send"
                   /\ pc'[w] = "lock"
                   /\ exchanged' = Counted(exchanged, resp'[w])
                   /\ sent' = sent
          /\ \A w \in Workers :
                (pc[w] = "record_outcome" /\ pc'[w] # pc[w] /\ ~resp[w].ok) =>
                    /\ pc'[w] = "unlock"
                    /\ agg'.net_errors =
                          [agg.net_errors EXCEPT ![KindOf(resp[w])] = @ + 1]
                    /\ agg'.status_exact = agg.status_exact
                    /\ agg'.status_class = agg.status_class
                    /\ agg'.latency_micros = agg.latency_micros
          /\ completed' # completed =>
                \E w \in Workers :
                   /\ pc[w] = "count"
                   /\ pc'[w] = "top"
                   /\ completed' = completed + 1
         ]_vars

\* a count-target run in which every exchange timed out
C20_Witness ==
    /\ CountOnly
    /\ phase = "done"
    /\ limit.v = MaxRequests
    /\ AllTimedOut
    /\ result.completed = MaxRequests
    /\ result.aggregates.net_errors.timeout = MaxRequests
    /\ MapSum(result.aggregates.status_exact) = 0

\* C21: per request the order is: reserve the slot, the exchange returns, fold
\* under the lock, increment completed. So in every reachable state
\* completed <= number of latency samples <= sent; the statistics change only
\* in a step of a worker that holds the lock and whose exchange has returned,
\* and completed grows only in a step of a worker that has folded and dropped
\* the lock.
C21_ReserveExchangeFoldCount ==
    /\ [](/\ completed <= HistogramLen(agg.latency_micros)
          /\ HistogramLen(agg.latency_micros) <= sent)
    /\ [][/\ agg' # agg =>
                \E w \in Workers :
                   /\ pc[w] \in {"record_latency", "record_outcome"}
                   /\ aggLock = w
                   /\ resp[w] \in DOMAIN exchanged
                   /\ MapSum(exchanged) <= sent
          /\ completed' # completed =>
                \E w \in Workers :
                   /\ pc[w] = "count"
                   /\ aggLock # w
                   /\ resp[w] = NoResponse
                   /\ completed' <= HistogramLen(agg.latency_micros)
         ]_vars

\* one request is folding, another is still being sent, none is counted yet
C21_Witness ==
    /\ completed = 0
    /\ HistogramLen(agg.latency_micros) = 1
    /\ sent = 2
    /\ \E w, o \in Workers : pc[w] = "record_outcome" /\ pc[o] = "send"

\* C22: with a progress interval p > 0 a progress line carrying d is printed
\* exactly when a worker's increment brings completed to d and d is a multiple
\* of p: whatever the interleaving, each multiple of p up to completed has been
\* printed exactly once and nothing else has; with p = 0 nothing is printed.
Occurrences(seq, x) == Cardinality({i \in DOMAIN seq : seq[i] = x})

C22_ProgressExactlyOnce ==
    /\ [](/\ args.progress_every = 0 => notified = <<>>
          /\ \A i \in DOMAIN notified : notified[i] \in 1..completed
          /\ args.progress_every > 0 =>
                \A d \in 1..completed :
                   Occurrences(notified, d) =
                      IF d % args.progress_every = 0 THEN 1 ELSE 0)
    /\ [][/\ notified' # notified =>
                /\ args.progress_every > 0
                /\ completed' = completed + 1
                /\ completed' % args.progress_every = 0
                /\ notified' = Append(notified, completed')
          /\ (/\ completed' # completed
              /\ args.progress_every > 0
              /\ completed' % args.progress_every = 0) =>
                notified' # notified
         ]_vars

\* two workers, interval 2: the first completion printed nothing, the second
\* printed its line
C22_Witness ==
    /\ args.progress_every = 2
    /\ conc = 2
    /\ completed = 2
    /\ notified = <<2>>
    /\ phase = "done"

\* C23: the classifier maps every failed exchange to exactly one error kind
\* by the priority chain timeout, connect, request, body, decode, other: for
\* every combination of the five predicates, the one counter that the fold of
\* the failure increments is the counter of the first predicate that holds,
\* or `other` when none holds.
OneExchange(r) == DOMAIN exchanged = {r} /\ exchanged[r] = 1

OutcomeRecorded == \A w \in Workers : pc[w] \in {"unlock", "count", "top"}

C23_ClassifierPriority ==
    \A r \in DOMAIN exchanged :
        (OneExchange(r) /\ ~r.ok /\ OutcomeRecorded) =>
            LET e == r.err
                n == agg.net_errors
            IN  /\ NetErrCounts_total(n) = 1
                /\ n.timeout = 1 <=> "timeout" \in e
                /\ n.connect = 1 <=>
                      /\ "connect" \in e
                      /\ e \cap {"timeout"} = {}
                /\ n.request = 1 <=>
                      /\ "request" \in e
                      /\ e \cap {"timeout", "connect"} = {}
                /\ n.body = 1 <=>
                      /\ "body" \in e
                      /\ e \cap {"timeout", "connect", "request"} = {}
                /\ n.decode = 1 <=>
                      /\ "decode" \in e
                      /\ e \cap {"timeout", "connect", "request", "body"} = {}
                /\ n.other = 1 <=> e \cap ErrorPredicates = {}
                /\ agg.status_exact = Aggregates_new.status_exact
                /\ agg.status_class = StatusClassCounts_default

\* a failure that is a timeout and a connect failure (and everything else) has
\* been folded as a timeout
C23_Witness ==
    /\ OneExchange(Err(ErrorPredicates))
    /\ OutcomeRecorded
    /\ agg.net_errors.timeout = 1
    /\ agg.net_errors.connect = 0
    /\ completed = 1

\* C24: for every 16-bit status code the status-class rollup adds 1 to
\* exactly one bucket: c1xx..c5xx for the codes 100..199, .., 500..599, and
\* other for every code below 100 or from 600 up; and the record of a response
\* can be made whatever the code is.
C24_StatusClassRollup ==
    /\ \A r \in DOMAIN exchanged :
          (OneExchange(r) /\ r.ok /\ OutcomeRecorded) =>
              LET c == r.code
                  sc == agg.status_class
              IN  /\ StatusClassSum(sc) = 1
                  /\ sc.c1xx = 1 <=> (100 <= c /\ c <= 199)
                  /\ sc.c2xx = 1 <=> (200 <= c /\ c <= 299)
                  /\ sc.c3xx = 1 <=> (300 <= c /\ c <= 399)
                  /\ sc.c4xx = 1 <=> (400 <= c /\ c <= 499)
                  /\ sc.c5xx = 1 <=> (500 <= c /\ c <= 599)
                  /\ sc.other = 1 <=> (c < 100 \/ c >= 600)
                  /\ agg.status_exact = [k \in {c} |-> 1]
                  /\ agg.net_errors = NetErrCounts_default
    /\ \A w \in Workers :
          (pc[w] = "record_outcome" /\ resp[w].ok) => ENABLED RecordOutcome(w)

\* the largest 16-bit code has been folded into `other`
C24_Witness ==
    /\ OneExchange(Ok(U16Max))
    /\ OutcomeRecorded
    /\ agg.status_class.other = 1
    /\ agg.status_class.c5xx = 0
    /\ completed = 1

\* C25: the number of requests in flight never exceeds the worker count: in
\* every reachable state sent - completed <= N, where N is the concurrency
\* clamped to at least 1, the number of workers spawned.
ClampedConcurrency == IF args.concurrency < 1 THEN 1 ELSE args.concurrency

C25_InFlightWithinWorkers ==
    /\ sent - completed <= ClampedConcurrency
    /\ Workers # {} => Cardinality(Workers) = ClampedConcurrency

\* every worker has a request in flight
C25_Witness ==
    /\ ClampedConcurrency = 2
    /\ sent - completed = 2
    /\ \A w \in Workers : pc[w] \in InFlight
    /\ phase = "running"

\* C26: in a run with a count target T and no deadline the stop flag is set
\* only when the target has been fully reserved: in every reachable state,
\* stop = TRUE implies sent = T.
C26_StopOnlyAtTarget ==
    (CountOnly /\ stop) => sent = limit.v

\* stop is set while a reserved request is still in flight
C26_Witness ==
    /\ CountOnly
    /\ stop
    /\ limit.v = 2
    /\ sent = 2
    /\ completed < sent
    /\ phase = "running"

====
